---- MODULE Spec2Model ----
(***************************************************************************)
(* A model of bilibili_api/show.py: the catalog reader, the identity       *)
(* reader, the click-position generator and the OrderTicket purchase flow. *)
(*                                                                         *)
(* Every coroutine of the module is a step machine whose steps end at the  *)
(* await of a network call.  A function of the module is an operator that  *)
(* yields the set of its possible outcomes (what it returns or raises, and *)
(* the log of network round trips it made), one per upstream answer.       *)
(*                                                                         *)
(* Python str values that the code searches (the venue policy texts) are   *)
(* sequences of characters; the characters of the two policy markers are   *)
(* written in pinyin: "yi" "ren" "yi" "zheng" and "yi" "dan" "yi" "zheng". *)
(***************************************************************************)
EXTENDS Integers, Sequences, FiniteSets, TLC

VARIABLES
    pc,          \* position of the running coroutine
    op,          \* the operation the caller invoked
    credential,  \* the Credential passed by the caller
    self,        \* the OrderTicket instance (project_id, session, ticket, target_buyer)
    project_id,  \* argument of get_project_info / get_available_sessions
    net,         \* log of the network round trips of the running operation
    header,      \* local header of _get_create_order_payload, then payload of create_order
    rtn,         \* what the operation returned
    raised       \* the exception the operation raised, "none" if none

vars == <<pc, op, credential, self, project_id, net, header, rtn, raised>>

----------------------------------------------------------------------------
(* Bounds of the model *)

MaxScreens == 2      \* length of an upstream screen_list
MaxTickets == 2      \* tickets of one upstream screen_list, all screens together
MaxBuyers == 2       \* length of an upstream identity list
MaxElems == 2        \* length of an upstream performance_desc.list
MaxDetails == 2      \* details of one performance_desc.list, all elements together
RandomSteps == 10    \* draws of one random.randint call: the quantiles 0/10 .. 10/10

----------------------------------------------------------------------------
(* Python values *)

NoneDict == [None |-> TRUE]
NoneList == <<>>

SeqsOfLen(S, k) == [1..k -> S]
SeqsUpTo(S, n) == UNION {SeqsOfLen(S, k) : k \in 0..n}

\* str.__contains__: sub occurs in s as a contiguous run of characters
contains(s, sub) ==
    \E i \in 0..(Len(s) - Len(sub)) : SubSeq(s, i + 1, i + Len(sub)) = sub

\* json.dumps: the text that encodes v, not v itself
json_dumps(v) == <<"json", v>>

\* random.randint(a, b) at the draw u of 0..RandomSteps: a at 0, b at RandomSteps
randint(a, b, u) == a + (u * (b - a)) \div RandomSteps

\* int(time.time() * 1000) at the clock reading t, which counts quarter
\* milliseconds since the epoch
int_ms(t) == (t * 1000) \div 4000

----------------------------------------------------------------------------
(* Errors *)

AuthenticationRequiredError == "AuthenticationRequiredError"
TransportError == "TransportError"
RemoteServiceError == "RemoteServiceError"
TypeError == "TypeError"
NetErrors == {TransportError, RemoteServiceError}

----------------------------------------------------------------------------
(* The records of the module *)

\* faulty variant of Ticket: the price converted from cents to yuan
Ticket_yuan(id, price, desc, sale_start, sale_end) ==
    [id |-> id, price |-> price \div 100, desc |-> desc,
     sale_start |-> sale_start, sale_end |-> sale_end]

\* Ticket(id, price, desc, sale_start, sale_end)
Ticket(id, price, desc, sale_start, sale_end) ==
    [id |-> id, price |-> price, desc |-> desc,
     sale_start |-> sale_start, sale_end |-> sale_end]

\* Session(id, start_time, formatted_time); ticket_list starts as a fresh list
Session(id, start_time, formatted_time) ==
    [id |-> id, start_time |-> start_time, formatted_time |-> formatted_time,
     ticket_list |-> <<>>]

BuyerInfoRequired ==
    {"id", "uid", "account_channel", "personal_id", "name", "id_card_front",
     "id_card_back", "is_default", "tel", "error_code", "id_type",
     "verify_status", "accountId"}

BuyerInfoDefaulted == {"isBuyerInfoVerified", "isBuyerValid"}

BuyerInfoFields == BuyerInfoRequired \cup BuyerInfoDefaulted

\* BuyerInfo(**v) raises TypeError when a field without default is missing
\* from v or v holds a key that is no field
BuyerInfoRaises(v) ==
    ~ (BuyerInfoRequired \subseteq DOMAIN v /\ DOMAIN v \subseteq BuyerInfoFields)

\* BuyerInfo(**v): the fields of v, the two defaulted fields True when absent
BuyerInfo(v) ==
    [k \in BuyerInfoFields |-> IF k \in DOMAIN v THEN v[k] ELSE TRUE]

----------------------------------------------------------------------------
(* What the upstream may answer, and what the caller may pass *)

Credentials == {[sessdata |-> "SESSDATA"], [sessdata |-> "None"]}

ProjectIds == {500, 501}

TicketJsons ==
    {[id |-> 10, price |-> 100, desc |-> "VIP", sale_start |-> "t0", sale_end |-> "t1"],
     [id |-> 11, price |-> -1, desc |-> "std", sale_start |-> "t2", sale_end |-> "t3"]}

ScreenHeads ==
    {[id |-> 1, start_time |-> 1700000000, name |-> "2024-01-01 Monday"],
     [id |-> 2, start_time |-> 1700086400, name |-> "2024-01-02 Tuesday"]}

\* the screen lists of at most n screens holding at most k tickets together
RECURSIVE ScreenListsOf(_, _)
ScreenListsOf(n, k) ==
    IF n = 0 THEN {<<>>}
    ELSE {<<>>} \cup UNION {
        {<<[id |-> h.id, start_time |-> h.start_time, name |-> h.name,
            ticket_list |-> tl]>> \o r :
            h \in ScreenHeads, tl \in SeqsOfLen(TicketJsons, j),
            r \in ScreenListsOf(n - 1, k - j)} : j \in 0..k}

ScreenLists == ScreenListsOf(MaxScreens, MaxTickets)

\* the two policy markers, and the texts a detail may hold: each marker inside
\* a longer text, and a text that holds the characters of a marker but not
\* the marker
MarkerOnePersonOneId == <<"yi", "ren", "yi", "zheng">>
MarkerOneOrderOneId == <<"yi", "dan", "yi", "zheng">>

Contents ==
    {<<"x">> \o MarkerOnePersonOneId,
     MarkerOneOrderOneId \o <<"x">>,
     <<"yi", "ren", "x", "yi", "zheng">>}

Modules == {"base_info", "other"}

\* the performance_desc lists of at most n elements holding at most k details
RECURSIVE DescListsOf(_, _)
DescListsOf(n, k) ==
    IF n = 0 THEN {<<>>}
    ELSE {<<>>} \cup UNION {
        {<<[module |-> m, details |-> d]>> \o r :
            m \in Modules,
            d \in SeqsOfLen({[content |-> c] : c \in Contents}, j),
            r \in DescListsOf(n - 1, k - j)} : j \in 0..k}

DescLists == DescListsOf(MaxElems, MaxDetails)

\* the project JSONs: every screen list, and every performance_desc list
ProjectJsons ==
    {[screen_list |-> s, performance_desc |-> [list |-> <<>>]] : s \in ScreenLists}
    \cup {[screen_list |-> <<>>, performance_desc |-> [list |-> l]] : l \in DescLists}

BuyerA ==
    [id |-> 1, uid |-> 9, account_channel |-> "", personal_id |-> "110101",
     name |-> "Li", id_card_front |-> "", id_card_back |-> "", is_default |-> 1,
     tel |-> "13800000000", error_code |-> "", id_type |-> 0,
     verify_status |-> 1, accountId |-> 9]

BuyerB ==
    [id |-> 2, uid |-> 9, account_channel |-> "c", personal_id |-> "220202",
     name |-> "Wu", id_card_front |-> "f", id_card_back |-> "b", is_default |-> 0,
     tel |-> "13900000000", error_code |-> "e", id_type |-> 1,
     verify_status |-> 0, accountId |-> 9]

Without(v, k) == [f \in (DOMAIN v) \ {k} |-> v[f]]

With(v, k, x) == [f \in (DOMAIN v) \cup {k} |-> IF f = k THEN x ELSE v[f]]

\* the elements of an identity list: whole records, with and without the
\* defaulted fields, a record that lacks tel, and a record with a key that
\* is no field of BuyerInfo
BuyerJsons ==
    {BuyerA, BuyerB,
     With(With(BuyerB, "isBuyerInfoVerified", FALSE), "isBuyerValid", FALSE),
     With(BuyerA, "isBuyerValid", FALSE),
     Without(BuyerA, "tel"),
     With(BuyerB, "extra", TRUE)}

BuyerListJsons == {[list |-> l] : l \in SeqsUpTo(BuyerJsons, MaxBuyers)}

TokenJsons == {[token |-> "tok1"], [token |-> "tok2"]}

OrderJsons == {[orderId |-> 1], [orderId |-> 2]}

----------------------------------------------------------------------------
(* The network collaborator and the credential *)

\* one round trip as the transport saw it: the request, and how it ended
RoundTrip(api, params, data, outcome, answer) ==
    [api |-> api, params |-> params, data |-> data,
     outcome |-> outcome, answer |-> answer]

\* what a call of a function of the module may come to: the round trips made
\* so far, the exception raised ("none" if none), the value returned
Outcome(n, e, v) == [net |-> n, raised |-> e, value |-> v]

\* await Api(**api).update_params(**params).update_data(**data).result:
\* one round trip, which returns one of the answers or raises
Api_result(n, api, params, data, answers) ==
    {Outcome(Append(n, RoundTrip(api, params, data, "ok", r)), "none", r) :
        r \in answers}
    \cup {Outcome(Append(n, RoundTrip(api, params, data, e, NoneDict)), e, NoneDict) :
        e \in NetErrors}

\* credential.raise_for_no_sessdata() raises
raise_for_no_sessdata(c) == c.sessdata = "None"

\* get_deviceid("", True)
get_deviceid == "deviceid"

----------------------------------------------------------------------------
(* Catalog reader *)

get_project_info(pid, n) ==
    Api_result(n, "info.get", [id |-> pid], NoneDict, ProjectJsons)

\* faulty variant of the ticket loop: insert(0, ...) in place of append
RECURSIVE append_tickets_front(_, _, _)
append_tickets_front(sess_obj, ticket_list, i) ==
    IF i > Len(ticket_list) THEN sess_obj
    ELSE LET t == ticket_list[i]
         IN append_tickets_front(
                [sess_obj EXCEPT !.ticket_list =
                    <<Ticket(t.id, t.price, t.desc, t.sale_start, t.sale_end)>> \o @],
                ticket_list, i + 1)

\* for t in v["ticket_list"]: sess_obj.ticket_list.append(Ticket(...))
RECURSIVE append_tickets(_, _, _)
append_tickets(sess_obj, ticket_list, i) ==
    IF i > Len(ticket_list) THEN sess_obj
    ELSE LET t == ticket_list[i]
         IN append_tickets(
                [sess_obj EXCEPT !.ticket_list =
                    Append(@, Ticket(t.id, t.price, t.desc, t.sale_start, t.sale_end))],
                ticket_list, i + 1)

\* for v in project_info["screen_list"]: ... rtn_list.append(sess_obj)
RECURSIVE append_sessions(_, _, _)
append_sessions(rtn_list, screen_list, i) ==
    IF i > Len(screen_list) THEN rtn_list
    ELSE LET v == screen_list[i]
             sess_obj == append_tickets(Session(v.id, v.start_time, v.name),
                                        v.ticket_list, 1)
         IN append_sessions(Append(rtn_list, sess_obj), screen_list, i + 1)

get_available_sessions(pid, n) ==
    {IF o.raised # "none" THEN Outcome(o.net, o.raised, NoneList)
     ELSE Outcome(o.net, "none", append_sessions(<<>>, o.value.screen_list, 1)) :
        o \in get_project_info(pid, n)}

----------------------------------------------------------------------------
(* Identity reader *)

get_all_buyer_info(c, n) ==
    IF raise_for_no_sessdata(c)
    THEN {Outcome(n, AuthenticationRequiredError, NoneDict)}
    ELSE Api_result(n, "info.buyer_info", NoneDict, NoneDict, BuyerListJsons)

\* faulty variant of get_all_buyer_info_obj: an element BuyerInfo rejects
\* is left out of the list
get_all_buyer_info_obj_skip(c, n) ==
    {IF o.raised # "none" THEN Outcome(o.net, o.raised, NoneList)
     ELSE LET l == o.value.list
              RECURSIVE keep(_)
              keep(i) == IF i > Len(l) THEN <<>>
                         ELSE IF BuyerInfoRaises(l[i]) THEN keep(i + 1)
                         ELSE <<BuyerInfo(l[i])>> \o keep(i + 1)
          IN Outcome(o.net, "none", keep(1)) :
        o \in get_all_buyer_info(c, n)}

\* [BuyerInfo(**v) for v in res["list"]]
get_all_buyer_info_obj(c, n) ==
    {IF o.raised # "none" THEN Outcome(o.net, o.raised, NoneList)
     ELSE LET l == o.value.list
          IN IF \E i \in 1..Len(l) : BuyerInfoRaises(l[i])
             THEN Outcome(o.net, TypeError, NoneList)
             ELSE Outcome(o.net, "none", [i \in 1..Len(l) |-> BuyerInfo(l[i])]) :
        o \in get_all_buyer_info(c, n)}

----------------------------------------------------------------------------
(* Click-position generator *)

\* faulty variant of generate_clickPosition: the offset drawn in seconds
generate_clickPosition_seconds(ux, uy, t, ud) ==
    LET x == randint(1320, 1330, ux)
        y == randint(880, 890, uy)
        origin_timestamp == int_ms(t)
        now_timestamp == origin_timestamp + randint(5, 10, ud)
    IN [x |-> x, y |-> y, origin |-> origin_timestamp, now |-> now_timestamp]

\* ux, uy, ud: the draws of the three random.randint calls; t: time.time()
generate_clickPosition(ux, uy, t, ud) ==
    LET x == randint(1320, 1330, ux)
        y == randint(880, 890, uy)
        origin_timestamp == int_ms(t)
        now_timestamp == origin_timestamp + randint(5000, 10000, ud)
    IN [x |-> x, y |-> y, origin |-> origin_timestamp, now |-> now_timestamp]

----------------------------------------------------------------------------
(* Order builder and order submitter (class OrderTicket) *)

\* the OrderTicket instances a caller may build
Orders ==
    {[project_id |-> p,
      session |-> append_tickets(Session(h.id, h.start_time, h.name), <<t>>, 1),
      ticket |-> Ticket(t.id, t.price, t.desc, t.sale_start, t.sale_end),
      target_buyer |-> BuyerInfo(IF p = 500 THEN BuyerA ELSE BuyerB)] :
        p \in ProjectIds, h \in ScreenHeads, t \in TicketJsons}

\* clock readings, in quarter milliseconds, of a clock that reads at least
\* one millisecond past the epoch
Clocks == {4, 7, 4001, 400003}

\* the clock reading and the click positions of an order attempt: the draws
\* of generate_clickPosition at both ends of their ranges
OrderClocks == {4001}
OrderClicks ==
    {generate_clickPosition(u, u, t, u) : u \in {0, RandomSteps}, t \in OrderClocks}

\* faulty variant of get_token: the credential is not checked
get_token_unchecked(s, c, n) ==
    LET payload == [count |-> "1", order_type |-> 1,
                    project_id |-> s.project_id,
                    screen_id |-> s.session.id,
                    sku_id |-> s.ticket.id]
    IN Api_result(n, "info.token", NoneDict, payload, TokenJsons)

\* OrderTicket.get_token
get_token(s, c, n) ==
    IF raise_for_no_sessdata(c)
    THEN {Outcome(n, AuthenticationRequiredError, NoneDict)}
    ELSE LET payload == [count |-> "1", order_type |-> 1,
                         project_id |-> s.project_id,
                         screen_id |-> s.session.id,
                         sku_id |-> s.ticket.id]
         IN Api_result(n, "info.token", NoneDict, payload, TokenJsons)

\* dict.update
dict_update(d, u) ==
    [k \in (DOMAIN d) \cup (DOMAIN u) |-> IF k \in DOMAIN u THEN u[k] ELSE d[k]]

\* the header of lines 236-247
order_header(s, token, t, click, screen_id, sku_id) ==
    [count |-> 1, order_type |-> 1,
     pay_money |-> s.ticket.price,
     project_id |-> s.project_id,
     screen_id |-> screen_id,
     sku_id |-> sku_id,
     timestamp |-> int_ms(t),
     token |-> token,
     deviceId |-> get_deviceid,
     clickPosition |-> json_dumps(click)]

\* faulty variant of payload_header: a failed token request is tried again
payload_header_retry(s, c, n, t, click) ==
    UNION {IF o.raised = "none"
           THEN {Outcome(o.net, "none",
                    order_header(s, o.value.token, t, click, s.session.id, s.ticket.id))}
           ELSE {IF o2.raised # "none" THEN o2
                 ELSE Outcome(o2.net, "none",
                    order_header(s, o2.value.token, t, click, s.session.id, s.ticket.id)) :
                    o2 \in get_token(s, c, o.net)} :
        o \in get_token(s, c, n)}

\* faulty variant of payload_header: screen_id and sku_id exchanged
payload_header_swapped(s, c, n, t, click) ==
    {IF o.raised # "none" THEN o
     ELSE Outcome(o.net, "none",
            order_header(s, o.value.token, t, click, s.ticket.id, s.session.id)) :
        o \in get_token(s, c, n)}

\* _get_create_order_payload up to its second await (lines 235-247):
\* the token, then the header
payload_header(s, c, n, t, click) ==
    {IF o.raised # "none" THEN o
     ELSE Outcome(o.net, "none",
            order_header(s, o.value.token, t, click, s.session.id, s.ticket.id)) :
        o \in get_token(s, c, n)}

\* faulty variant of the loop of lines 250-253: no break, the last element
\* whose module is "base_info" is kept
base_info_last(list) ==
    IF \E i \in 1..Len(list) : list[i].module = "base_info"
    THEN LET last == CHOOSE i \in 1..Len(list) :
                        /\ list[i].module = "base_info"
                        /\ \A j \in (i + 1)..Len(list) : list[j].module # "base_info"
         IN [is_list |-> FALSE, value |-> list[last]]
    ELSE [is_list |-> TRUE, value |-> list]

\* lines 249-253: info after the loop is the first element whose module is
\* "base_info", or still the list when the loop found none
base_info(list) ==
    IF \E i \in 1..Len(list) : list[i].module = "base_info"
    THEN LET first == CHOOSE i \in 1..Len(list) :
                        /\ list[i].module = "base_info"
                        /\ \A j \in 1..(i - 1) : list[j].module # "base_info"
         IN [is_list |-> FALSE, value |-> list[first]]
    ELSE [is_list |-> TRUE, value |-> list]

\* faulty variant of the test of line 256: only the first marker is looked for
requires_identity_one_marker(details) ==
    \E i \in 1..Len(details) :
        contains(details[i].content, MarkerOnePersonOneId)

\* lines 254-256: some detail's content holds one of the two markers
requires_identity(details) ==
    \E i \in 1..Len(details) :
        \/ contains(details[i].content, MarkerOnePersonOneId)
        \/ contains(details[i].content, MarkerOneOrderOneId)

\* _get_create_order_payload from its second await on (lines 248-265);
\* info["details"] raises TypeError when info is still the list
payload_scan(s, hdr, n) ==
    {IF o.raised # "none" THEN o
     ELSE LET info == base_info(o.value.performance_desc.list)
          IN IF info.is_list THEN Outcome(o.net, TypeError, NoneDict)
             ELSE IF requires_identity(info.value.details)
             THEN Outcome(o.net, "none",
                    dict_update(hdr,
                        [buyer_info |-> json_dumps(<<s.target_buyer>>)]))
             ELSE Outcome(o.net, "none",
                    dict_update(hdr,
                        [buyer |-> s.target_buyer.name, tel |-> s.target_buyer.tel])) :
        o \in get_project_info(s.project_id, n)}

\* faulty variant of the submission: a failed submission is sent again
submit_order_retry(s, c, payload, n) ==
    UNION {IF o.raised = "none" THEN {o}
           ELSE Api_result(o.net, "operate.order", [project_id |-> s.project_id],
                           payload, OrderJsons) :
        o \in Api_result(n, "operate.order", [project_id |-> s.project_id],
                         payload, OrderJsons)}

\* create_order after _get_create_order_payload returned (lines 295-301)
submit_order(s, c, payload, n) ==
    Api_result(n, "operate.order", [project_id |-> s.project_id], payload, OrderJsons)

----------------------------------------------------------------------------
(* The operations as step machines *)

CatalogOps == {"get_project_info", "get_available_sessions"}
IdentityOps == {"get_all_buyer_info", "get_all_buyer_info_obj"}
OrderOps == {"get_token", "create_order"}

Init ==
    /\ pc = "idle"
    /\ op = "none"
    /\ credential = NoneDict
    /\ self = NoneDict
    /\ project_id = 0
    /\ net = <<>>
    /\ header = NoneDict
    /\ rtn = NoneDict
    /\ raised = "none"

\* the caller invokes one operation of the module
Call ==
    /\ pc = "idle"
    /\ pc' = "initialized"
    /\ \/ /\ op' \in CatalogOps
          /\ project_id' \in ProjectIds
          /\ UNCHANGED <<credential, self>>
       \/ /\ op' \in IdentityOps
          /\ credential' \in Credentials
          /\ UNCHANGED <<project_id, self>>
       \/ /\ op' = "generate_clickPosition"
          /\ UNCHANGED <<project_id, credential, self>>
       \/ /\ op' \in OrderOps
          /\ credential' \in Credentials
          /\ self' \in Orders
          /\ UNCHANGED project_id
    /\ UNCHANGED <<net, header, rtn, raised>>

\* the operation ends with outcome o
Finish(o) ==
    /\ pc' = "done"
    /\ net' = o.net
    /\ raised' = o.raised
    /\ rtn' = o.value
    /\ UNCHANGED <<op, credential, self, project_id, header>>

GetProjectInfo ==
    /\ pc = "initialized" /\ op = "get_project_info"
    /\ \E o \in get_project_info(project_id, net) : Finish(o)

GetAvailableSessions ==
    /\ pc = "initialized" /\ op = "get_available_sessions"
    /\ \E o \in get_available_sessions(project_id, net) : Finish(o)

GetAllBuyerInfo ==
    /\ pc = "initialized" /\ op = "get_all_buyer_info"
    /\ \E o \in get_all_buyer_info(credential, net) : Finish(o)

GetAllBuyerInfoObj ==
    /\ pc = "initialized" /\ op = "get_all_buyer_info_obj"
    /\ \E o \in get_all_buyer_info_obj(credential, net) : Finish(o)

GenerateClickPosition ==
    /\ pc = "initialized" /\ op = "generate_clickPosition"
    /\ \E ux \in 0..RandomSteps, uy \in 0..RandomSteps, ud \in 0..RandomSteps,
          t \in Clocks :
            Finish(Outcome(net, "none", generate_clickPosition(ux, uy, t, ud)))

GetToken ==
    /\ pc = "initialized" /\ op = "get_token"
    /\ \E o \in get_token(self, credential, net) : Finish(o)

\* create_order, in _get_create_order_payload: the token and the header
CreateOrderToken ==
    /\ pc = "initialized" /\ op = "create_order"
    /\ \E t \in OrderClocks, click \in OrderClicks :
        \E o \in payload_header(self, credential, net, t, click) :
            IF o.raised # "none" THEN Finish(o)
            ELSE /\ pc' = "token_acquired"
                 /\ net' = o.net
                 /\ header' = o.value
                 /\ UNCHANGED <<op, credential, self, project_id, rtn, raised>>

\* create_order, in _get_create_order_payload: the project info and the scan
CreateOrderPayload ==
    /\ pc = "token_acquired" /\ op = "create_order"
    /\ \E o \in payload_scan(self, header, net) :
        IF o.raised # "none" THEN Finish(o)
        ELSE /\ pc' = "payload_built"
             /\ net' = o.net
             /\ header' = o.value
             /\ UNCHANGED <<op, credential, self, project_id, rtn, raised>>

\* create_order: the submission
CreateOrderSubmit ==
    /\ pc = "payload_built" /\ op = "create_order"
    /\ \E o \in submit_order(self, credential, header, net) : Finish(o)

\* the caller has the result; nothing of the attempt is kept
Return ==
    /\ pc = "done"
    /\ pc' = "idle"
    /\ op' = "none"
    /\ credential' = NoneDict
    /\ self' = NoneDict
    /\ project_id' = 0
    /\ net' = <<>>
    /\ header' = NoneDict
    /\ rtn' = NoneDict
    /\ raised' = "none"

Next ==
    \/ Call
    \/ GetProjectInfo
    \/ GetAvailableSessions
    \/ GetAllBuyerInfo
    \/ GetAllBuyerInfoObj
    \/ GenerateClickPosition
    \/ GetToken
    \/ CreateOrderToken
    \/ CreateOrderPayload
    \/ CreateOrderSubmit
    \/ Return

Spec == Init /\ [][Next]_vars

----------------------------------------------------------------------------
(* Properties *)

Apis(n) == [i \in 1..Len(n) |-> n[i].api]

GatedOps == IdentityOps \cup OrderOps

\* C1: a credential-gated operation called with a credential that has no
\* session token makes no network call at any moment and ends with the
\* authentication-required error; whenever that error is raised, no network
\* call has been made.
C1_NoSessdataNoCall ==
    /\ (op \in GatedOps /\ credential.sessdata = "None") =>
          /\ net = <<>>
          /\ pc \in {"initialized", "done"}
          /\ (pc = "done" => raised = AuthenticationRequiredError)
    /\ (raised = AuthenticationRequiredError) => net = <<>>

C1_Witness ==
    /\ op = "create_order" /\ pc = "done"
    /\ credential.sessdata = "None"
    /\ raised = AuthenticationRequiredError /\ net = <<>>

\* C2: in create_order, when the token request fails, create_order ends with
\* that same error, the token request was made once, and the order endpoint
\* is not called; when get_token fails before its request, create_order ends
\* with that error and no endpoint is called.
C2_TokenErrorPropagates ==
    /\ (op = "create_order" /\ Len(net) >= 1 /\ net[1].outcome # "ok") =>
          /\ pc = "done"
          /\ raised = net[1].outcome
          /\ Apis(net) = <<"info.token">>
    /\ (op = "create_order" /\ pc = "done" /\ raised = AuthenticationRequiredError) =>
          net = <<>>
    /\ (op = "create_order" /\ pc = "done" /\ Len(net) < 2) => raised # "none"

C2_Witness ==
    /\ op = "create_order" /\ pc = "done"
    /\ Len(net) = 1 /\ net[1].api = "info.token"
    /\ net[1].outcome = TransportError /\ raised = TransportError

\* the first element of list l whose module is "base_info" is l[i]
FirstBaseInfo(l, i) ==
    /\ i \in 1..Len(l)
    /\ l[i].module = "base_info"
    /\ \A j \in 1..(i - 1) : l[j].module # "base_info"

HasMarker(details) ==
    \E k \in 1..Len(details) :
        \/ contains(details[k].content, MarkerOnePersonOneId)
        \/ contains(details[k].content, MarkerOneOrderOneId)

\* C3: a payload returned by _get_create_order_payload has the key buyer_info,
\* and neither buyer nor tel, exactly when a detail of the scanned base_info
\* element holds one of the two markers; otherwise it has both buyer and tel
\* and not buyer_info.
C3_PayloadShape ==
    (op = "create_order" /\ pc = "payload_built") =>
        LET l == net[2].answer.performance_desc.list
            keys == DOMAIN header
        IN \E i \in 1..Len(l) :
            /\ FirstBaseInfo(l, i)
            /\ ("buyer_info" \in keys) <=> HasMarker(l[i].details)
            /\ ("buyer_info" \in keys) => ("buyer" \notin keys /\ "tel" \notin keys)
            /\ ("buyer_info" \notin keys) => ("buyer" \in keys /\ "tel" \in keys)

C3_Witness ==
    /\ op = "create_order" /\ pc = "payload_built"
    /\ "buyer_info" \in DOMAIN header
    /\ LET l == net[2].answer.performance_desc.list
       IN /\ Len(l) = 1 /\ Len(l[1].details) = 2
          /\ ~ HasMarker(<<l[1].details[1]>>)
          /\ contains(l[1].details[2].content, MarkerOneOrderOneId)

\* C4 as claimed: a successful create_order makes exactly two round trips,
\* the token request then the order submission; every other operation makes
\* at most one.
C4_TwoRoundTrips ==
    /\ (op = "create_order" /\ pc = "done" /\ raised = "none") =>
          Apis(net) = <<"info.token", "operate.order">>
    /\ (op # "create_order") => Len(net) <= 1

\* C4 as amended: a successful create_order makes exactly three round trips,
\* in sequence: the token request, the project-info request, the order
\* submission; every other operation makes at most one.
C4_ThreeRoundTrips ==
    /\ (op = "create_order" /\ pc = "done" /\ raised = "none") =>
          Apis(net) = <<"info.token", "info.get", "operate.order">>
    /\ (op # "create_order") => Len(net) <= 1

C4_Witness ==
    /\ op = "create_order" /\ pc = "done" /\ raised = "none"
    /\ Len(net) = 3 /\ net[2].api = "info.get"

\* C5: get_available_sessions returns one Session per element of screen_list,
\* in order, each with one Ticket per element of that screen's ticket_list,
\* in order, all fields copied unchanged.
C5_SessionsRoundTrip ==
    (op = "get_available_sessions" /\ pc = "done" /\ raised = "none") =>
        LET sl == net[1].answer.screen_list
        IN /\ Len(rtn) = Len(sl)
           /\ \A i \in 1..Len(sl) :
                /\ rtn[i].id = sl[i].id
                /\ rtn[i].start_time = sl[i].start_time
                /\ rtn[i].formatted_time = sl[i].name
                /\ Len(rtn[i].ticket_list) = Len(sl[i].ticket_list)
                /\ \A j \in 1..Len(sl[i].ticket_list) :
                     LET a == rtn[i].ticket_list[j]
                         b == sl[i].ticket_list[j]
                     IN /\ a.id = b.id /\ a.price = b.price /\ a.desc = b.desc
                        /\ a.sale_start = b.sale_start /\ a.sale_end = b.sale_end

C5_Witness ==
    /\ op = "get_available_sessions" /\ pc = "done" /\ raised = "none"
    /\ Len(rtn) = 2
    /\ Len(rtn[1].ticket_list) = 2
    /\ rtn[1].ticket_list[1].id # rtn[1].ticket_list[2].id
    /\ rtn[2].ticket_list = <<>>

\* element v of an identity list cannot be mapped whole onto a BuyerInfo
Unmappable(v) ==
    \/ \E k \in BuyerInfoRequired : k \notin DOMAIN v
    \/ \E k \in DOMAIN v : k \notin BuyerInfoFields

\* C6: get_all_buyer_info_obj returns one BuyerInfo per element of the
\* response's list, in order, every field of the element copied and every
\* field of the record filled; when an element cannot be mapped whole the
\* operation fails and returns no list.
C6_BuyersRoundTrip ==
    (op = "get_all_buyer_info_obj" /\ pc = "done"
        /\ Len(net) = 1 /\ net[1].outcome = "ok") =>
        LET l == net[1].answer.list
        IN IF \E i \in 1..Len(l) : Unmappable(l[i])
           THEN raised = TypeError /\ rtn = <<>>
           ELSE /\ raised = "none"
                /\ Len(rtn) = Len(l)
                /\ \A i \in 1..Len(l) :
                     /\ DOMAIN rtn[i] = BuyerInfoFields
                     /\ \A k \in DOMAIN l[i] : rtn[i][k] = l[i][k]

C6_Witness ==
    /\ op = "get_all_buyer_info_obj" /\ pc = "done" /\ raised = "none"
    /\ Len(rtn) = 2
    /\ rtn[1].id = 2 /\ rtn[2].id = 1
    /\ rtn[1].isBuyerValid = FALSE

\* a click position within the documented ranges
ClickInRange(c) ==
    /\ 1320 <= c.x /\ c.x <= 1330
    /\ 880 <= c.y /\ c.y <= 890
    /\ 5000 <= c.now - c.origin /\ c.now - c.origin <= 10000
    /\ c.origin > 0

C8_PriceNonNegative ==
    /\ (op = "get_available_sessions" /\ pc = "done" /\ raised = "none") =>
          \A i \in 1..Len(rtn) : \A j \in 1..Len(rtn[i].ticket_list) :
              rtn[i].ticket_list[j].price >= 0
    /\ (op = "create_order" /\ pc \in {"token_acquired", "payload_built"}) =>
          header.pay_money >= 0

\* C8 as amended: every Ticket's price is the price of the upstream ticket
\* element it was built from, negative when that one is, and an order
\* payload's pay_money is the price of the OrderTicket's ticket.
C8_PriceAsUpstream ==
    /\ (op = "get_available_sessions" /\ pc = "done" /\ raised = "none") =>
          LET sl == net[1].answer.screen_list
          IN \A i \in 1..Len(rtn) : \A j \in 1..Len(rtn[i].ticket_list) :
              /\ i <= Len(sl) /\ j <= Len(sl[i].ticket_list)
              /\ rtn[i].ticket_list[j].price = sl[i].ticket_list[j].price
    /\ (op = "create_order" /\ pc \in {"token_acquired", "payload_built"}) =>
          header.pay_money = self.ticket.price

C8_Witness ==
    /\ op = "get_available_sessions" /\ pc = "done" /\ raised = "none"
    /\ Len(rtn) >= 1 /\ Len(rtn[1].ticket_list) >= 1
    /\ rtn[1].ticket_list[1].price < 0
    /\ net[1].answer.screen_list[1].ticket_list[1].price < 0

\* C9: one create_order attempt goes initialized -> token_acquired ->
\* payload_built -> order submitted: its round trips are a prefix of token,
\* project info, order; the order is submitted only after the token request
\* and the payload both succeeded, with the token of that token request and
\* the project_id, screen_id = session.id, sku_id = ticket.id of the token
\* request, and pay_money = ticket.price; a failure at any step ends the
\* attempt with that error, nothing submitted and nothing repeated.
C9_OrderOfSteps ==
    (op = "create_order") =>
        /\ \E k \in 0..3 :
              Apis(net) = SubSeq(<<"info.token", "info.get", "operate.order">>, 1, k)
        /\ pc = "initialized" => net = <<>>
        /\ pc = "token_acquired" =>
              /\ Len(net) = 1 /\ net[1].outcome = "ok"
              /\ header.token = net[1].answer.token
        /\ pc = "payload_built" =>
              /\ Len(net) = 2 /\ net[1].outcome = "ok" /\ net[2].outcome = "ok"
              /\ header.token = net[1].answer.token
        /\ Len(net) = 3 =>
              /\ pc = "done"
              /\ net[1].outcome = "ok" /\ net[2].outcome = "ok"
              /\ net[3].data = header
              /\ net[3].data.token = net[1].answer.token
              /\ net[3].params.project_id = self.project_id
              /\ net[3].data.project_id = self.project_id
              /\ net[1].data.project_id = self.project_id
              /\ net[3].data.screen_id = self.session.id
              /\ net[1].data.screen_id = self.session.id
              /\ net[3].data.sku_id = self.ticket.id
              /\ net[1].data.sku_id = self.ticket.id
              /\ net[3].data.pay_money = self.ticket.price
        /\ \A i \in 1..Len(net) : net[i].outcome # "ok" =>
              /\ i = Len(net)
              /\ pc = "done"
              /\ raised = net[i].outcome
        /\ (raised # "none") =>
              /\ pc = "done"
              /\ \A i \in 1..Len(net) :
                    net[i].api = "operate.order" => net[i].outcome # "ok"

C9_Witness ==
    /\ op = "create_order" /\ pc = "done" /\ raised = "none"
    /\ Len(net) = 3 /\ net[3].api = "operate.order" /\ net[3].outcome = "ok"
    /\ net[1].answer.token = "tok2" /\ net[3].data.token = "tok2"
    /\ net[3].data.screen_id = 2 /\ net[3].data.sku_id = 11

\* C10: the policy scan reads only the details of the first element of
\* performance_desc.list whose module is "base_info": markers in later
\* base_info elements or in other modules do not change the payload's shape;
\* when the list has no such element (an empty list too) the operation ends
\* in an error, no payload is returned and no order is submitted.
C10_FirstBaseInfoOnly ==
    (op = "create_order" /\ Len(net) >= 2 /\ net[2].outcome = "ok") =>
        LET l == net[2].answer.performance_desc.list
        IN IF \E i \in 1..Len(l) : l[i].module = "base_info"
           THEN /\ raised # TypeError
                /\ \A i \in 1..Len(l) : FirstBaseInfo(l, i) =>
                      (("buyer_info" \in DOMAIN header) <=> HasMarker(l[i].details))
           ELSE /\ pc = "done"
                /\ raised = TypeError
                /\ Len(net) = 2
                /\ "buyer" \notin DOMAIN header

C10_Witness ==
    /\ op = "create_order" /\ pc = "done" /\ raised = TypeError
    /\ Len(net) = 2
    /\ LET l == net[2].answer.performance_desc.list
       IN /\ Len(l) = 1 /\ l[1].module = "other"
          /\ HasMarker(l[1].details)

====
